---- MODULE Spec2Model ----
(***************************************************************************)
(* Model of src/services/geminiService.ts: the six adapter operations that *)
(* build a request for the generative-AI oracle, await its reply and       *)
(* post-process the reply text.                                            *)
(*                                                                         *)
(* Strings are sequences of one-character strings.  JavaScript values are  *)
(* records of one shape, [t, s, n], so that any two can be compared.       *)
(***************************************************************************)
EXTENDS Integers, Sequences, FiniteSets, TLC

VARIABLES
  API_KEY,  \* process.env.API_KEY, a JavaScript value
  calls,    \* per invocation: operation, argument, position, events, result
  net,      \* the requests in flight to the oracle
  oracle    \* per invocation: what the oracle answered to its request

vars == <<API_KEY, calls, net, oracle>>

-----------------------------------------------------------------------------
(* Bounds of the model.                                                    *)

MaxCalls == 2    \* concurrent invocations
MaxLen == 2      \* length of the enumerated strings
MaxVinLen == 18  \* longest prefix taken of the sample VINs

-----------------------------------------------------------------------------
(* Characters and strings.                                                 *)

UpperAZ == <<"A","B","C","D","E","F","G","H","I","J","K","L","M",
             "N","O","P","Q","R","S","T","U","V","W","X","Y","Z">>
LowerAZ == <<"a","b","c","d","e","f","g","h","i","j","k","l","m",
             "n","o","p","q","r","s","t","u","v","w","x","y","z">>
Digits == <<"0","1","2","3","4","5","6","7","8","9">>

Range(s) == {s[i] : i \in DOMAIN s}
IndexOf(c, s) == CHOOSE i \in DOMAIN s : s[i] = c
Min(a, b) == IF a < b THEN a ELSE b
Max(a, b) == IF a > b THEN a ELSE b

\* String.prototype.toUpperCase, one character at a time: a-z map to A-Z,
\* "é" to "É", "ß" to the two characters "SS", everything else to itself.
toUpperCaseChar(c) ==
  IF c \in Range(LowerAZ) THEN <<UpperAZ[IndexOf(c, LowerAZ)]>>
  ELSE IF c = "é" THEN <<"É">>
  ELSE IF c = "ß" THEN <<"S", "S">>
  ELSE <<c>>

RECURSIVE toUpperCase(_)
toUpperCase(s) ==
  IF s = <<>> THEN <<>> ELSE toUpperCaseChar(Head(s)) \o toUpperCase(Tail(s))

\* The character class [A-Z0-9] under the i flag (no u flag): a character of
\* code >= 128 never canonicalizes to an ASCII letter, so exactly the ASCII
\* letters of either case and the digits match.
MatchesAZ09IgnoreCase(c) ==
  c \in Range(UpperAZ) \cup Range(LowerAZ) \cup Range(Digits)

\* s.replace(/[^A-Z0-9]/gi, ''): every character outside the class is removed.
RECURSIVE replaceNonAZ09(_)
replaceNonAZ09(s) ==
  IF s = <<>> THEN <<>>
  ELSE (IF MatchesAZ09IgnoreCase(Head(s)) THEN <<Head(s)>> ELSE <<>>)
       \o replaceNonAZ09(Tail(s))

\* String.prototype.substring(start, end): both clamped to [0, length] and
\* swapped when start > end; offsets are zero-based, end exclusive.
substring(s, start, end) ==
  LET a == Min(Max(start, 0), Len(s))
      b == Min(Max(end, 0), Len(s))
  IN  SubSeq(s, Min(a, b) + 1, Max(a, b))

\* String.prototype.split(sep) for a one-character separator: the segments
\* between the separators, always at least one.
RECURSIVE split(_, _)
split(s, sep) ==
  IF \A i \in DOMAIN s : s[i] # sep THEN <<s>>
  ELSE LET i == CHOOSE k \in DOMAIN s :
                  s[k] = sep /\ \A j \in 1..(k - 1) : s[j] # sep
       IN  <<SubSeq(s, 1, i - 1)>> \o split(SubSeq(s, i + 1, Len(s)), sep)

\* Number.prototype.toString for integers.
RECURSIVE DigitsOf(_)
DigitsOf(n) ==
  IF n < 10 THEN <<Digits[n + 1]>>
  ELSE DigitsOf(n \div 10) \o <<Digits[(n % 10) + 1]>>
NumberToString(n) == IF n < 0 THEN <<"-">> \o DigitsOf(-n) ELSE DigitsOf(n)

-----------------------------------------------------------------------------
(* JavaScript values as they occur in a parsed reply and in a result.      *)

Undefined == [t |-> "undefined", s |-> <<>>, n |-> 0]
Null == [t |-> "null", s |-> <<>>, n |-> 0]
Str(s) == [t |-> "string", s |-> s, n |-> 0]
Num(n) == [t |-> "number", s |-> <<>>, n |-> n]
True == [t |-> "boolean", s |-> <<>>, n |-> 1]
False == [t |-> "boolean", s |-> <<>>, n |-> 0]
EmptyObject == [t |-> "object", s |-> <<>>, n |-> 0]  \* {}
EmptyArray == [t |-> "array", s |-> <<>>, n |-> 0]    \* []

\* ToBoolean: what !v, v || d and v?.f test.
Truthy(v) ==
  CASE v.t = "string" -> v.s # <<>>
    [] v.t = "number" -> v.n # 0
    [] v.t = "boolean" -> v.n = 1
    [] v.t \in {"object", "array"} -> TRUE
    [] OTHER -> FALSE

\* v || d
OrElse(v, d) == IF Truthy(v) THEN v ELSE d

\* String(v), the characters of the resulting string.
String(v) ==
  CASE v.t = "string" -> v.s
    [] v.t = "number" -> NumberToString(v.n)
    [] v.t = "boolean" ->
         IF v.n = 1 THEN <<"t","r","u","e">> ELSE <<"f","a","l","s","e">>
    [] v.t = "null" -> <<"n","u","l","l">>
    [] v.t = "object" ->
         <<"[","o","b","j","e","c","t"," ","O","b","j","e","c","t","]">>
    [] v.t = "array" -> <<>>
    [] OTHER -> <<"u","n","d","e","f","i","n","e","d">>

-----------------------------------------------------------------------------
(* JSON documents.  A parsed document is a value that may carry fields, a  *)
(* set of entries [k, v] with one entry per key; a field the document does *)
(* not hold reads as undefined.                                            *)

Fields == {"vin", "brand", "model", "deductionReasoning", "yearOfManufacture",
           "licensePlate", "registrationYear", "motorization", "fuelType",
           "color", "marketValueMin", "marketValueMax",
           "marketValueJustification"}

NoFields == {}
\* The entries of an object given as a function from keys to values, where
\* undefined stands for a key the object does not hold.
Entries(g) == {[k |-> key, v |-> g[key]] : key \in {x \in DOMAIN g : g[x] # Undefined}}
JObject(f) == [t |-> "object", s |-> <<>>, n |-> 0, f |-> f]
JScalar(v) == [t |-> v.t, s |-> v.s, n |-> v.n, f |-> NoFields]
EmptyPartial == JObject(NoFields)  \* {}

\* rawData.k on a parsed document that is not null.
Get(rawData, k) ==
  IF rawData.t = "object" /\ \E e \in rawData.f : e.k = k
  THEN (CHOOSE e \in rawData.f : e.k = k).v
  ELSE Undefined

-----------------------------------------------------------------------------
(* The text of a reply: leading white space, a core, trailing white space. *)
(* The core is nothing, characters that are no JSON document ("raw"), or   *)
(* the serialization of a JSON document ("json").                          *)

Text(pre, k, raw, val, post) ==
  [pre |-> pre, k |-> k, raw |-> raw, val |-> val, post |-> post]
EmptyText == Text(<<>>, "none", <<>>, JScalar(Null), <<>>)   \* ""
BlankText(ws) == Text(ws, "none", <<>>, JScalar(Null), <<>>)
RawText(pre, raw, post) == Text(pre, "raw", raw, JScalar(Null), post)
JsonText(pre, val, post) == Text(pre, "json", <<>>, val, post)

\* ToBoolean of a string: it is not empty.
TextTruthy(x) == x.pre # <<>> \/ x.k # "none" \/ x.post # <<>>

\* String.prototype.trim
trim(x) == [x EXCEPT !.pre = <<>>, !.post = <<>>]

\* JSON.parse: a SyntaxError unless the text is a JSON document.
JSONparse(x) ==
  IF x.k = "json" THEN [ok |-> TRUE, val |-> x.val]
  ELSE [ok |-> FALSE, val |-> JScalar(Null)]

-----------------------------------------------------------------------------
(* What the oracle's promise settles to, and what an invocation ends in.   *)

Pending == [st |-> "pending", hasText |-> FALSE, text |-> EmptyText]
Rejected == [st |-> "rejected", hasText |-> FALSE, text |-> EmptyText]
NoTextResponse == [st |-> "fulfilled", hasText |-> FALSE, text |-> EmptyText]
TextResponse(x) == [st |-> "fulfilled", hasText |-> TRUE, text |-> x]

NoResult ==
  [kind |-> "none", err |-> "", isText |-> FALSE,
   val |-> JScalar(Null), text |-> EmptyText]
Return(v) == [NoResult EXCEPT !.kind = "return", !.val = v]
ReturnText(x) == [NoResult EXCEPT !.kind = "return", !.isText = TRUE, !.text = x]
Throw(e) == [NoResult EXCEPT !.kind = "throw", !.err = e]

MissingKeyError == "Clé API Google Gemini manquante"
OracleFailure == "oracle request failed"
ReportFallback == RawText(<<>>, <<"Impossible de générer le rapport pour ce VIN.">>, <<>>)
ChatFallback == RawText(<<>>, <<"Désolé, je n'ai pas pu traiter votre demande.">>, <<>>)

\* !textResponse, for textResponse = response.text
NoTextResponseText(response) ==
  ~response.hasText \/ ~TextTruthy(response.text)

-----------------------------------------------------------------------------
(* The requests the operations build.                                      *)

Ops == {"analyzeVehicleByVin", "analyzeVehicleCritical", "analyzeVehicleDetails",
        "getVinAnalysisReport", "chatWithExpert", "estimateMarketValue"}
JsonOps == Ops \ {"getVinAnalysisReport", "chatWithExpert"}
ImageOps == {"analyzeVehicleCritical", "analyzeVehicleDetails"}

\* base64Image.split(',')[1] || base64Image
inlineData(base64Image) ==
  LET parts == split(base64Image, ",")
      second == IF Len(parts) >= 2 THEN Str(parts[2]) ELSE Undefined
  IN  OrElse(second, Str(base64Image)).s

\* Variant of decompositionTable that takes the VIS row from position 10
\* counted from zero, one character late.
decompositionTableLateVIS(vin) ==
  [WMI |-> substring(vin, 0, 3),
   VDS |-> substring(vin, 3, 9),
   VIS |-> substring(vin, 10, 17)]

\* The three rows of the report's decomposition table.
decompositionTable(vin) ==
  [WMI |-> substring(vin, 0, 3),
   VDS |-> substring(vin, 3, 9),
   VIS |-> substring(vin, 9, 17)]

NoTable == [WMI |-> <<>>, VDS |-> <<>>, VIS |-> <<>>]

\* The model each operation names in its request.
modelOf(op) ==
  IF op \in {"getVinAnalysisReport", "estimateMarketValue"}
  THEN "gemini-3-pro-preview" ELSE "gemini-3-flash-preview"

\* The request an operation sends for its argument (the VIN of the two VIN
\* operations, the image of the two image operations): the image payload it
\* forwards, the table rows it writes into the instruction, and whether it
\* asks for JSON.
requestOf(id, op, arg) ==
  [id |-> id,
   api |-> IF op = "chatWithExpert" THEN "chat.sendMessage"
           ELSE "models.generateContent",
   model |-> modelOf(op),
   vin |-> IF op \in {"analyzeVehicleByVin", "getVinAnalysisReport"}
           THEN arg ELSE <<>>,
   data |-> IF op \in ImageOps THEN inlineData(arg) ELSE <<>>,
   table |-> IF op = "getVinAnalysisReport"
             THEN decompositionTable(arg) ELSE NoTable,
   json |-> op \in JsonOps]

\* The oracle API the operation touches, in order, once it has a client.
apiCalls(op) ==
  IF op = "chatWithExpert" THEN <<"chats.create", "chat.sendMessage">>
  ELSE <<"models.generateContent">>

\* The uses of the oracle API that send a request.
RequestApis == {"models.generateContent", "chat.sendMessage"}
OracleApis == RequestApis \cup {"chats.create"}

-----------------------------------------------------------------------------
(* What each operation does with the settled response.                     *)

\* return JSON.parse(textResponse.trim())
parseReply(response) ==
  LET parsed == JSONparse(trim(response.text))
  IN  IF parsed.ok THEN Return(parsed.val) ELSE Throw("SyntaxError")

analyzeVehicleByVin(response) ==
  IF NoTextResponseText(response) THEN Return(EmptyPartial)
  ELSE parseReply(response)

\* Variant of vinOf without the final toUpperCase.
vinOfNoUpperCase(rawData) ==
  Str(replaceNonAZ09(String(OrElse(Get(rawData, "vin"), Str(<<>>)))))

vinOf(rawData) ==
  Str(toUpperCase(replaceNonAZ09(String(OrElse(Get(rawData, "vin"), Str(<<>>))))))
brandOf(rawData) ==
  Str(toUpperCase(String(OrElse(Get(rawData, "brand"),
                                Str(<<"I","n","c","o","n","n","u">>)))))
modelNameOf(rawData) ==
  Str(toUpperCase(String(OrElse(Get(rawData, "model"),
                                Str(<<"A","N","A","L","Y","S","E",".",".",".">>)))))
deductionReasoningOf(rawData) ==
  OrElse(Get(rawData, "deductionReasoning"), Str(<<>>))
\* Variant of yearOfManufactureOf without the String(...) coercion.
yearOfManufactureOfUncoerced(rawData) ==
  OrElse(Get(rawData, "yearOfManufacture"), Str(<<"N","/","A">>))

yearOfManufactureOf(rawData) ==
  Str(String(OrElse(Get(rawData, "yearOfManufacture"), Str(<<"N","/","A">>))))
\* Variant of licensePlateOf that copies the field as it is.
licensePlateOfCopied(rawData) == Get(rawData, "licensePlate")

licensePlateOf(rawData) ==
  Str(String(OrElse(Get(rawData, "licensePlate"), Str(<<>>))))
\* Variant of registrationYearOf that also uppercases.
registrationYearOfUpperCased(rawData) ==
  Str(toUpperCase(String(OrElse(Get(rawData, "registrationYear"), Str(<<>>)))))

registrationYearOf(rawData) ==
  Str(String(OrElse(Get(rawData, "registrationYear"), Str(<<>>))))

CriticalFields ==
  {"vin", "brand", "model", "deductionReasoning", "yearOfManufacture",
   "licensePlate", "registrationYear"}

\* The object literal analyzeVehicleCritical returns.
normalized(rawData) ==
  JObject({[k |-> "vin", v |-> vinOf(rawData)],
           [k |-> "brand", v |-> brandOf(rawData)],
           [k |-> "model", v |-> modelNameOf(rawData)],
           [k |-> "deductionReasoning", v |-> deductionReasoningOf(rawData)],
           [k |-> "yearOfManufacture", v |-> yearOfManufactureOf(rawData)],
           [k |-> "licensePlate", v |-> licensePlateOf(rawData)],
           [k |-> "registrationYear", v |-> registrationYearOf(rawData)]})

\* Variant of analyzeVehicleCritical with the silent policy of its siblings
\* on an empty reply.
analyzeVehicleCriticalSilent(response) ==
  IF NoTextResponseText(response) THEN Return(EmptyPartial)
  ELSE LET parsed == JSONparse(trim(response.text))
       IN  IF ~parsed.ok THEN Throw("SyntaxError")
           ELSE IF parsed.val.t = "null" THEN Throw("TypeError")
           ELSE Return(normalized(parsed.val))

analyzeVehicleCritical(response) ==
  IF NoTextResponseText(response) THEN Throw("IA_EMPTY_RESPONSE")
  ELSE LET parsed == JSONparse(trim(response.text))
       IN  IF ~parsed.ok THEN Throw("SyntaxError")
           ELSE IF parsed.val.t = "null" THEN Throw("TypeError")
           ELSE Return(normalized(parsed.val))

analyzeVehicleDetails(response) ==
  IF NoTextResponseText(response) THEN Return(EmptyPartial)
  ELSE parseReply(response)

\* response.text?.trim() || fallback
textOr(response, fallback) ==
  IF response.hasText /\ TextTruthy(trim(response.text))
  THEN ReturnText(trim(response.text)) ELSE ReturnText(fallback)

\* Variant of getVinAnalysisReport without the trim: response.text || fallback
getVinAnalysisReportUntrimmed(response) ==
  IF response.hasText /\ TextTruthy(response.text)
  THEN ReturnText(response.text) ELSE ReturnText(ReportFallback)

getVinAnalysisReport(response) == textOr(response, ReportFallback)

chatWithExpert(response) == textOr(response, ChatFallback)

estimateMarketValue(response) ==
  IF NoTextResponseText(response) THEN Throw("IA_ESTIMATION_FAILED")
  ELSE parseReply(response)

\* The part of an operation that runs once the awaited promise is settled: a
\* rejection is thrown on out of the await.
afterAwait(op, response) ==
  IF response.st = "rejected" THEN Throw(OracleFailure)
  ELSE CASE op = "analyzeVehicleByVin" -> analyzeVehicleByVin(response)
         [] op = "analyzeVehicleCritical" -> analyzeVehicleCritical(response)
         [] op = "analyzeVehicleDetails" -> analyzeVehicleDetails(response)
         [] op = "getVinAnalysisReport" -> getVinAnalysisReport(response)
         [] op = "chatWithExpert" -> chatWithExpert(response)
         [] OTHER -> estimateMarketValue(response)

-----------------------------------------------------------------------------
(* The invocations.                                                        *)

Calls == 1..MaxCalls

Idle ==
  [op |-> "none", arg |-> <<>>, pc |-> "idle", events |-> <<>>,
   result |-> NoResult]

\* Variant of getAIClient that only tests the key against undefined.
getAIClientDefinedOnly == API_KEY.t # "undefined"

\* getAIClient: TRUE when it returns a client, FALSE when it throws.
getAIClient == Truthy(API_KEY)

\* Variant of awaited with a shared cache: the first response any invocation
\* received is handed to every later one.
awaitedCached(id, response) ==
  IF \E d \in Calls : oracle[d].st # "pending"
  THEN oracle[CHOOSE d \in Calls : oracle[d].st # "pending"]
  ELSE response

\* The response the await of invocation id yields when the oracle settles
\* its request with response.
awaited(id, response) == response

\* An operation is invoked: everything up to its first await.
Invoke(c, op, arg) ==
  /\ calls[c].pc = "idle"
  /\ IF getAIClient
     THEN /\ calls' = [calls EXCEPT ![c] =
                 [op |-> op, arg |-> arg, pc |-> "awaiting",
                  events |-> <<"getAIClient">> \o apiCalls(op),
                  result |-> NoResult]]
          /\ net' = net \cup {requestOf(c, op, arg)}
     ELSE /\ calls' = [calls EXCEPT ![c] =
                 [op |-> op, arg |-> arg, pc |-> "settled",
                  events |-> <<"getAIClient">>,
                  result |-> Throw(MissingKeyError)]]
          /\ net' = net
  /\ UNCHANGED <<API_KEY, oracle>>

\* The oracle settles a request, and the invocation awaiting it runs on to
\* its end.
Settle(r, response) ==
  /\ r \in net
  /\ net' = net \ {r}
  /\ oracle' = [oracle EXCEPT ![r.id] = response]
  /\ calls' = [calls EXCEPT ![r.id] =
        [calls[r.id] EXCEPT
           !.pc = "settled",
           !.result = afterAwait(calls[r.id].op, awaited(r.id, response))]]
  /\ UNCHANGED API_KEY

OracleFulfil(r, response) == response.st = "fulfilled" /\ Settle(r, response)
OracleReject(r) == Settle(r, Rejected)

Init ==
  /\ API_KEY \in {Undefined, Str(<<>>), Str(<<"k">>)}
  /\ calls = [c \in Calls |-> Idle]
  /\ net = {}
  /\ oracle = [c \in Calls |-> Pending]

-----------------------------------------------------------------------------
(* The inputs the specifications draw from.                                *)

\* All strings over the alphabet of length at most n.
RECURSIVE StringsOver(_, _)
StringsOver(alphabet, n) ==
  IF n = 0 THEN {<<>>}
  ELSE LET shorter == StringsOver(alphabet, n - 1)
       IN  shorter \cup {<<a>> \o x : a \in alphabet, x \in shorter}

ExampleVin ==
  <<"W","V","W","Z","Z","Z","1","K","Z","A","W","0","0","0","0","0","1">>
\* Twenty characters each: a valid VIN with three more characters, and a
\* string of mixed case, separators and letters outside ASCII.
VinBases ==
  {ExampleVin \o <<"X","Y","Z">>,
   <<"w","v","-","w"," ","z","z",".","I","1","o","Q","_","é","ß","/","a","w","0","+">>}
VinInputs ==
  {SubSeq(b, 1, Min(n, Len(b))) : b \in VinBases, n \in 0..MaxVinLen}

DataUriPrefix ==
  <<"d","a","t","a",":","i","m","a","g","e","/","j","p","e","g",";","b","a","s","e","6","4",",">>
ImageInputs ==
  StringsOver({",", "A", ";"}, MaxLen + 2)
    \cup {DataUriPrefix, DataUriPrefix \o <<"Q","U","J","D">>}

LongVinText ==
  <<"w","v","w","-","z","z","z","1","k","z"," ","a","w","0","0","0","0","0","1","x","y">>
SampleStrings ==
  StringsOver({"a", "Z", "7", "-"}, MaxLen)
    \cup {LongVinText, ExampleVin, <<"é","ß">>, <<"2","0","2","0">>}

\* The values a field of a reply takes: absent, or any JSON value.
RichValues ==
  {Undefined, Null, True, False, Num(0), Num(2020), Num(-5),
   EmptyObject, EmptyArray} \cup {Str(x) : x \in SampleStrings}
CoarseValues == {Undefined, Str(<<>>), Str(<<"a","-","7">>)}

\* Reply objects: every combination of coarse values for the fields of
\* analyzeVehicleCritical, and every value for one field of an object that
\* otherwise holds nothing or holds every field.
FullFields == [k \in Fields |-> Str(<<"a","-","7">>)]
ReplyObjects ==
  {Entries(g) : g \in [CriticalFields -> CoarseValues]}
    \cup {Entries([b EXCEPT ![k] = v]) :
            b \in {[x \in Fields |-> Undefined], FullFields},
            k \in Fields, v \in RichValues}

SampleObject ==
  {[k |-> "brand", v |-> Str(<<"v","w">>)],
   [k |-> "vin", v |-> Str(ExampleVin)],
   [k |-> "model", v |-> Str(<<"G","o","l","f">>)]}

\* Replies without a JSON object in them, and one with.
PlainResponses ==
  {NoTextResponse,
   TextResponse(EmptyText),
   TextResponse(BlankText(<<" ", "\n">>)),
   TextResponse(RawText(<<" ">>, <<"o","k">>, <<"\n">>)),
   TextResponse(JsonText(<<>>, JScalar(Null), <<>>))}
CoarseResponses ==
  PlainResponses \cup {TextResponse(JsonText(<<" ">>, JObject(SampleObject), <<>>))}
RichResponses ==
  PlainResponses
    \cup {TextResponse(JsonText(<<>>, JScalar(v), <<>>)) :
            v \in {Num(7), Str(<<"a">>), EmptyArray}}
    \cup {TextResponse(JsonText(ws, JObject(f), ws)) :
            f \in ReplyObjects, ws \in {<<>>, <<"\n">>}}

\* The argument an operation is given: a VIN, an image, or nothing that the
\* model follows (the history and question of the chat, the vehicle of the
\* estimate, which only enter the instruction text).
CoarseArgs(op) ==
  CASE op \in {"analyzeVehicleByVin", "getVinAnalysisReport"} ->
         {ExampleVin, <<"a","b">>}
    [] op \in ImageOps -> {<<"d",",","Q">>, <<"Q">>}
    [] OTHER -> {<<>>}

-----------------------------------------------------------------------------
(* Specifications.                                                         *)

\* Concurrent invocations of any operation.
Next ==
  \/ \E c \in Calls, op \in Ops : \E arg \in CoarseArgs(op) : Invoke(c, op, arg)
  \/ \E r \in net, response \in CoarseResponses : OracleFulfil(r, response)
  \/ \E r \in net : OracleReject(r)

Spec == Init /\ [][Next]_vars

\* One invocation of a VIN or image operation, over many VINs and images.
NextArgs ==
  \/ \E vin \in VinInputs : Invoke(1, "getVinAnalysisReport", vin)
  \/ \E op \in ImageOps, image \in ImageInputs : Invoke(1, op, image)
  \/ \E r \in net, response \in CoarseResponses : OracleFulfil(r, response)
  \/ \E r \in net : OracleReject(r)

SpecArgs == Init /\ [][NextArgs]_vars

\* One invocation of a JSON operation, over many replies.
NextJson ==
  \/ \E op \in JsonOps : \E arg \in CoarseArgs(op) : Invoke(1, op, arg)
  \/ \E r \in net, response \in RichResponses : OracleFulfil(r, response)
  \/ \E r \in net : OracleReject(r)

SpecJson == Init /\ [][NextJson]_vars

-----------------------------------------------------------------------------
(* Properties of the operations under concurrent invocation (Spec).        *)

Started(c) == calls[c].pc # "idle"
Settled(c) == calls[c].pc = "settled"
KeyPresent == Truthy(API_KEY)
Replied(c) == oracle[c].st = "fulfilled"
\* The reply carries no text or the empty string.
EmptyReply(c) ==
  Replied(c) /\ (~oracle[c].hasText \/ oracle[c].text = EmptyText)
\* The reply carries nothing to read: no text, or white space only.
NothingReturned(c) ==
  Replied(c) /\ (~oracle[c].hasText \/ oracle[c].text.k = "none")
RequestsOf(c) == {i \in DOMAIN calls[c].events : calls[c].events[i] \in RequestApis}
InFlight(c) == {r \in net : r.id = c}

\* C1: with the credential present and an oracle reply whose text is empty or
\* absent, analyzeVehicleByVin and analyzeVehicleDetails return the empty
\* partial, analyzeVehicleCritical throws IA_EMPTY_RESPONSE and
\* estimateMarketValue throws IA_ESTIMATION_FAILED (two different errors),
\* getVinAnalysisReport and chatWithExpert return their fallback strings.
C1_EmptyReplyPolicy ==
  /\ \A c \in Calls :
       (Settled(c) /\ KeyPresent /\ EmptyReply(c)) =>
         LET op == calls[c].op
             res == calls[c].result
         IN  /\ op \in {"analyzeVehicleByVin", "analyzeVehicleDetails"} =>
                  res.kind = "return" /\ ~res.isText /\ res.val = EmptyPartial
             /\ op = "analyzeVehicleCritical" =>
                  res.kind = "throw" /\ res.err = "IA_EMPTY_RESPONSE"
             /\ op = "estimateMarketValue" =>
                  res.kind = "throw" /\ res.err = "IA_ESTIMATION_FAILED"
             /\ op = "getVinAnalysisReport" =>
                  res.kind = "return" /\ res.isText /\ res.text = ReportFallback
             /\ op = "chatWithExpert" =>
                  res.kind = "return" /\ res.isText /\ res.text = ChatFallback
  /\ \A c, d \in Calls :
       (/\ Settled(c) /\ Settled(d) /\ KeyPresent /\ EmptyReply(c) /\ EmptyReply(d)
        /\ calls[c].op = "analyzeVehicleCritical"
        /\ calls[d].op = "estimateMarketValue") =>
         calls[c].result.err # calls[d].result.err

\* An image decode and an estimate have both met an empty reply.
C1_Witness ==
  \E c, d \in Calls :
    /\ calls[c].op = "analyzeVehicleCritical" /\ calls[d].op = "estimateMarketValue"
    /\ Settled(c) /\ Settled(d) /\ KeyPresent
    /\ oracle[c] = TextResponse(EmptyText) /\ oracle[d] = NoTextResponse

\* C2: with the API key absent, every invocation ends in the configuration
\* error and touches no oracle API (generateContent, chats.create, sendMessage)
\* and has no request in flight; in every invocation the key check precedes
\* the first use of the oracle API.
C2_MissingKeyBeforeAnyRequest ==
  \A c \in Calls :
    /\ (Started(c) /\ ~KeyPresent) =>
         /\ Settled(c)
         /\ calls[c].result = Throw(MissingKeyError)
         /\ \A i \in DOMAIN calls[c].events : calls[c].events[i] \notin OracleApis
         /\ InFlight(c) = {}
         /\ oracle[c] = Pending
    /\ \A i \in DOMAIN calls[c].events :
         calls[c].events[i] \in OracleApis =>
           \E j \in 1..(i - 1) : calls[c].events[j] = "getAIClient"

\* Without a key, a chat and another operation have both been invoked.
C2_Witness ==
  /\ ~KeyPresent
  /\ \E c, d \in Calls :
       /\ calls[c].op = "chatWithExpert" /\ Settled(c)
       /\ calls[d].op = "analyzeVehicleByVin" /\ Settled(d)

\* C8 as stated: getVinAnalysisReport never ends in an error, whatever the
\* configuration and whatever the oracle does; it returns a string.
C8_NeverThrows ==
  \A c \in Calls :
    (calls[c].op = "getVinAnalysisReport" /\ Settled(c)) =>
      calls[c].result.kind = "return" /\ calls[c].result.isText

\* C8 amended: getVinAnalysisReport ends in an error only when the key is
\* missing (the configuration error) or the oracle request fails (that
\* failure); on every reply of the oracle it returns a string, the fixed
\* placeholder when the reply has no text, an empty text or white space only,
\* and the trimmed text otherwise.
C8_ThrowsOnlyOnMissingKeyOrFailure ==
  \A c \in Calls :
    (calls[c].op = "getVinAnalysisReport" /\ Settled(c)) =>
      LET res == calls[c].result
      IN  /\ ~KeyPresent => res = Throw(MissingKeyError)
          /\ (KeyPresent /\ oracle[c].st = "rejected") => res = Throw(OracleFailure)
          /\ (KeyPresent /\ Replied(c)) =>
               /\ res.kind = "return" /\ res.isText
               /\ NothingReturned(c) => res.text = ReportFallback
               /\ ~NothingReturned(c) =>
                    /\ res.text.k = oracle[c].text.k
                    /\ res.text.raw = oracle[c].text.raw
                    /\ res.text.val = oracle[c].text.val
                    /\ res.text.pre = <<>> /\ res.text.post = <<>>

\* A report has met a reply of white space only.
C8_Witness ==
  \E c \in Calls :
    /\ calls[c].op = "getVinAnalysisReport" /\ Settled(c)
    /\ oracle[c] = TextResponse(BlankText(<<" ", "\n">>))
    /\ calls[c].result.text = ReportFallback

\* C10: every invocation sends at most one request, exactly one once it has
\* started with the credential present and none without it; while it awaits,
\* its one request is in flight and is built from its own arguments; once
\* settled it has no request in flight, whatever the outcome, and its result
\* is the one its own operation gives for the oracle's answer to its own
\* request, so that invocations of the same operation with the same answer
\* end alike, and no answer arrives for an invocation that sent nothing.
C10_OneRequestOwnReply ==
  /\ \A c \in Calls :
       /\ Cardinality(RequestsOf(c)) <= 1
       /\ (Started(c) /\ KeyPresent) => Cardinality(RequestsOf(c)) = 1
       /\ ~KeyPresent => RequestsOf(c) = {}
       /\ calls[c].pc = "awaiting" =>
            /\ InFlight(c) = {requestOf(c, calls[c].op, calls[c].arg)}
            /\ oracle[c] = Pending
       /\ calls[c].pc # "awaiting" => InFlight(c) = {}
       /\ (Settled(c) /\ KeyPresent) =>
            /\ oracle[c] # Pending
            /\ calls[c].result = afterAwait(calls[c].op, oracle[c])
       /\ oracle[c] # Pending => Settled(c) /\ KeyPresent
  /\ \A c, d \in Calls :
       (/\ Settled(c) /\ Settled(d)
        /\ calls[c].op = calls[d].op /\ oracle[c] = oracle[d]) =>
         calls[c].result = calls[d].result

\* Two invocations of one operation with one argument have met different
\* replies and ended differently.
C10_Witness ==
  \E c, d \in Calls :
    /\ c # d /\ Settled(c) /\ Settled(d) /\ KeyPresent
    /\ calls[c].op = calls[d].op /\ calls[c].arg = calls[d].arg
    /\ oracle[c] = TextResponse(EmptyText) /\ Replied(d) /\ oracle[d] # oracle[c]
    /\ calls[c].result # calls[d].result

-----------------------------------------------------------------------------
(* Properties of the post-processing of a reply (SpecJson).                *)

\* The reply's text is a JSON document that parses to an object or array.
RepliedObject(c) ==
  /\ Replied(c) /\ oracle[c].hasText /\ oracle[c].text.k = "json"
  /\ oracle[c].text.val.t \in {"object", "array"}
\* Invocation c of analyzeVehicleCritical has processed such a reply.
CriticalDone(c) ==
  calls[c].op = "analyzeVehicleCritical" /\ Settled(c) /\ RepliedObject(c)
\* Field k as the oracle gave it, and as the invocation returned it.
Given(c, k) == Get(oracle[c].text.val, k)
Out(c, k) == Get(calls[c].result.val, k)
IsUpperAlnum(ch) == ch \in Range(UpperAZ) \cup Range(Digits)
IsAlnum(ch) == ch \in Range(UpperAZ) \cup Range(LowerAZ) \cup Range(Digits)

\* C3: whatever the vin of a reply that parses to a JSON object (any string, a
\* value that is no string, or none), the vin analyzeVehicleCritical returns
\* is a string of characters A-Z and 0-9 only; its length is not forced: a vin
\* given as a string of letters and digits keeps its length, whatever it is.
C3_VinUpperAlnumAnyLength ==
  \A c \in Calls :
    CriticalDone(c) =>
      /\ calls[c].result.kind = "return"
      /\ Out(c, "vin").t = "string"
      /\ \A i \in DOMAIN Out(c, "vin").s : IsUpperAlnum(Out(c, "vin").s[i])
      /\ (/\ Given(c, "vin").t = "string"
          /\ \A i \in DOMAIN Given(c, "vin").s : IsAlnum(Given(c, "vin").s[i])) =>
           Len(Out(c, "vin").s) = Len(Given(c, "vin").s)

\* A vin given in lower case with separators comes back longer than 17.
C3_Witness ==
  \E c \in Calls :
    /\ CriticalDone(c)
    /\ Given(c, "vin") = Str(LongVinText)
    /\ Len(Out(c, "vin").s) > 17

\* C4: for a reply to analyzeVehicleCritical holding brand, vin and model as
\* strings, licensePlate and registrationYear of the result are strings, the
\* empty string when the reply omits the field.
C4_OptionalFieldsAreStrings ==
  \A c \in Calls :
    (/\ CriticalDone(c)
     /\ \A k \in {"brand", "vin", "model"} : Given(c, k).t = "string") =>
      \A k \in {"licensePlate", "registrationYear"} :
        /\ calls[c].result.kind = "return"
        /\ Out(c, k).t = "string"
        /\ Given(c, k) = Undefined => Out(c, k) = Str(<<>>)

\* A reply with the required fields and neither optional field.
C4_Witness ==
  \E c \in Calls :
    /\ CriticalDone(c)
    /\ \A k \in {"brand", "vin", "model"} : Truthy(Given(c, k))
    /\ Given(c, "licensePlate") = Undefined
    /\ Given(c, "registrationYear") = Undefined
    /\ Out(c, "licensePlate") = Str(<<>>)

YearAndPlateFields == {"yearOfManufacture", "registrationYear", "licensePlate"}

\* C5 as stated: yearOfManufacture, registrationYear and licensePlate of the
\* result of analyzeVehicleCritical are strings, each the empty string when
\* the reply omits the field or gives an empty value for it.
C5_EmptyStringFallback ==
  \A c \in Calls :
    CriticalDone(c) =>
      \A k \in YearAndPlateFields :
        /\ Out(c, k).t = "string"
        /\ Given(c, k) \in {Undefined, Null, Str(<<>>)} => Out(c, k) = Str(<<>>)

\* C5 amended: the three fields are strings; registrationYear and
\* licensePlate are the empty string, and yearOfManufacture is "N/A", when the
\* reply omits the field or gives an empty value (any falsy value) for it.
C5_FallbackPerField ==
  \A c \in Calls :
    CriticalDone(c) =>
      /\ \A k \in YearAndPlateFields : Out(c, k).t = "string"
      /\ \A k \in {"registrationYear", "licensePlate"} :
           ~Truthy(Given(c, k)) => Out(c, k) = Str(<<>>)
      /\ ~Truthy(Given(c, "yearOfManufacture")) =>
           Out(c, "yearOfManufacture") = Str(<<"N", "/", "A">>)

\* A reply without yearOfManufacture and without licensePlate.
C5_Witness ==
  \E c \in Calls :
    /\ CriticalDone(c)
    /\ Given(c, "yearOfManufacture") = Undefined
    /\ Out(c, "yearOfManufacture") = Str(<<"N", "/", "A">>)
    /\ Out(c, "licensePlate") = Str(<<>>)

\* The fields each operation's responseSchema declares as STRING.
StringFields(op) ==
  CASE op = "analyzeVehicleByVin" ->
         {"brand", "model", "deductionReasoning", "yearOfManufacture",
          "motorization", "fuelType", "color"}
    [] op = "analyzeVehicleCritical" -> CriticalFields
    [] op = "analyzeVehicleDetails" ->
         {"model", "motorization", "fuelType", "color", "registrationYear",
          "deductionReasoning"}
    [] op = "estimateMarketValue" -> {"marketValueJustification"}
    [] OTHER -> {}

\* Invocation c of a JSON operation has processed a reply that is an object.
JsonDone(c) ==
  /\ calls[c].op \in JsonOps /\ Settled(c) /\ RepliedObject(c)
  /\ oracle[c].text.val.t = "object"

\* The one change the round trip allows to a string given for field k.
Allowed(op, k, x) ==
  IF op = "analyzeVehicleCritical" /\ k \in {"brand", "model"}
  THEN toUpperCase(x)
  ELSE IF op = "analyzeVehicleCritical" /\ k = "vin"
  THEN toUpperCase(replaceNonAZ09(x))
  ELSE x

\* C6 as stated: every string the oracle gives for a STRING field comes out
\* unchanged, the empty string included, but for the uppercasing of brand and
\* model and the filtering of vin in analyzeVehicleCritical.
C6_RoundTripEveryString ==
  \A c \in Calls :
    JsonDone(c) =>
      \A k \in StringFields(calls[c].op) :
        Given(c, k).t = "string" =>
          /\ calls[c].result.kind = "return"
          /\ Out(c, k) = Str(Allowed(calls[c].op, k, Given(c, k).s))

\* C6 amended: as stated for every string that is not empty; the empty string
\* comes out unchanged too, except from analyzeVehicleCritical for
\* yearOfManufacture, brand and model, which come out as "N/A", "INCONNU" and
\* "ANALYSE...".
C6_RoundTripButSentinels ==
  \A c \in Calls :
    JsonDone(c) =>
      \A k \in StringFields(calls[c].op) :
        Given(c, k).t = "string" =>
          /\ calls[c].result.kind = "return"
          /\ IF /\ calls[c].op = "analyzeVehicleCritical"
                /\ k \in {"yearOfManufacture", "brand", "model"}
                /\ Given(c, k).s = <<>>
             THEN Out(c, k) =
                    CASE k = "yearOfManufacture" -> Str(<<"N","/","A">>)
                      [] k = "brand" -> Str(<<"I","N","C","O","N","N","U">>)
                      [] OTHER -> Str(<<"A","N","A","L","Y","S","E",".",".",".">>)
             ELSE Out(c, k) = Str(Allowed(calls[c].op, k, Given(c, k).s))

\* analyzeVehicleCritical has met an empty yearOfManufacture next to filled
\* lower-case fields.
C6_Witness ==
  \E c \in Calls :
    /\ calls[c].op = "analyzeVehicleCritical" /\ JsonDone(c)
    /\ Given(c, "yearOfManufacture") = Str(<<>>)
    /\ Given(c, "registrationYear") = Str(<<"a", "-", "7">>)
    /\ Out(c, "registrationYear") = Str(<<"a", "-", "7">>)
    /\ Out(c, "yearOfManufacture") = Str(<<"N", "/", "A">>)

-----------------------------------------------------------------------------
(* Properties of the requests (SpecArgs).                                  *)

\* The characters of x at the zero-based offsets from..to-1 that x has.
CharsAt(x, from, to) ==
  [i \in 1..(Min(to, Len(x)) - Min(from, Len(x))) |-> x[from + i]]

\* C7: the decomposition table getVinAnalysisReport writes for a VIN of any
\* length and content has as its WMI, VDS and VIS codes the VIN's characters
\* at offsets [0,3), [3,9) and [9,17), verbatim and cut at the VIN's end; for
\* WVWZZZ1KZAW000001 the VIS code is AW000001.
C7_TableRowsVerbatim ==
  \A r \in net :
    calls[r.id].op = "getVinAnalysisReport" =>
      LET vin == calls[r.id].arg
      IN  /\ r.table.WMI = CharsAt(vin, 0, 3)
          /\ r.table.VDS = CharsAt(vin, 3, 9)
          /\ r.table.VIS = CharsAt(vin, 9, 17)
          /\ vin = ExampleVin =>
               r.table.VIS = <<"A","W","0","0","0","0","0","1">>

\* A report is requested for an invalid VIN of more than 17 characters.
C7_Witness ==
  \E r \in net :
    /\ calls[r.id].op = "getVinAnalysisReport"
    /\ Len(calls[r.id].arg) > 17
    /\ "é" \in Range(calls[r.id].arg)
    /\ Len(r.table.VIS) = 8

HasComma(x) == "," \in Range(x)
\* The text up to and including the first comma.
PrefixOf(x) ==
  SubSeq(x, 1, CHOOSE i \in DOMAIN x : x[i] = "," /\ \A j \in 1..(i - 1) : x[j] # ",")
Contains(x, part) ==
  \E i \in 0..(Len(x) - Len(part)) : SubSeq(x, i + 1, i + Len(part)) = part

\* C9: the image payload analyzeVehicleCritical and analyzeVehicleDetails
\* forward never contains the input's data-URI prefix (the text up to and
\* including the first comma), also when nothing follows the comma; an input
\* without a comma is forwarded unchanged.
C9_PrefixStripped ==
  \A r \in net :
    calls[r.id].op \in ImageOps =>
      LET image == calls[r.id].arg
      IN  IF HasComma(image)
          THEN ~Contains(r.data, PrefixOf(image))
          ELSE r.data = image

====
